---- MODULE Spec2Model ----
(***************************************************************************)
(* Model of python-module-to-anki.py: one run of main() over a list of     *)
(* module names.  Strings that the program builds or slices are sequences  *)
(* of one-character strings; JSON values are records [t, s, n].            *)
(***************************************************************************)
EXTENDS Integers, Sequences, FiniteSets, TLC

VARIABLES modules, i, pc, note_ids, log, console, tempFiles, configReads,
          created, document, synopsis, response, outcome, raised, ret,
          h1, syn_result

vars == <<modules, i, pc, note_ids, log, console, tempFiles, configReads,
          created, document, synopsis, response, outcome, raised, ret,
          h1, syn_result>>

mainVars == <<modules, i, pc, note_ids, log, console, tempFiles, configReads,
              created, document, synopsis, response, outcome, raised, ret>>

----------------------------------------------------------------------------
(* Bounds *)

MaxModules == 3

MaxChildren == 4

----------------------------------------------------------------------------
(* JSON values and Python helpers *)

JNull == [t |-> "null", s |-> "", n |-> 0]

JStr(x) == [t |-> "str", s |-> x, n |-> 0]

JInt(x) == [t |-> "int", s |-> "", n |-> x]

Min(a, b) == IF a < b THEN a ELSE b

Max(a, b) == IF a > b THEN a ELSE b

\* seq[start:stop] with Python's index normalisation (negative indices count
\* from the end, out-of-range indices are clamped).
PySlice(seq, start, stop) ==
    LET len == Len(seq)
        norm(x) == IF x < 0 THEN Max(x + len, 0) ELSE Min(x, len)
        lo == norm(start)
        hi == norm(stop)
    IN  IF lo < hi THEN SubSeq(seq, lo + 1, hi) ELSE <<>>

\* seq[start:]
PySliceFrom(seq, start) == PySlice(seq, start, Len(seq))

RECURSIVE PyJoin(_, _)
\* sep.join(parts)
PyJoin(sep, parts) ==
    IF parts = <<>> THEN <<>>
    ELSE IF Len(parts) = 1 THEN parts[1]
    ELSE parts[1] \o sep \o PyJoin(sep, Tail(parts))

DigitChar(d) == <<"0", "1", "2", "3", "4", "5", "6", "7", "8", "9">>[d + 1]

RECURSIVE PyStrInt(_)
\* str(n) for a non-negative int
PyStrInt(n) == IF n < 10 THEN <<DigitChar(n)>>
               ELSE PyStrInt(n \div 10) \o <<DigitChar(n % 10)>>

\* str(node) for a child of a bs4 Tag: a NavigableString gives its text, a Tag
\* gives its markup.
PyStrNode(node) ==
    IF node.tag = <<>> THEN node.text
    ELSE <<"<">> \o node.tag \o <<">">> \o node.text
         \o <<"<", "/">> \o node.tag \o <<">">>

----------------------------------------------------------------------------
(* Inputs *)

ModuleNames == {"ast", "io"}

ModuleLists == UNION {[1..len -> ModuleNames] : len \in 1..MaxModules}

HttpStatuses == {200, 404}

PostStatuses == {200, 500}

NoteIds == {0, 12}

TextNode(txt) == [tag |-> <<>>, text |-> txt]

TagNode(name, txt) == [tag |-> name, text |-> txt]

CodeNode == TagNode(<<"c">>, <<"m">>)

LinkNode == TagNode(<<"a">>, <<"P">>)

TitleNode == TextNode(<<" ", "-", " ", "A", "b">>)

ShortNode == TextNode(<<"x">>)

BoldNode == TagNode(<<"b">>, <<"y">>)

Children == {CodeNode, LinkNode, TitleNode, ShortNode, BoldNode}

NoH1 == [found |-> FALSE, contents |-> <<>>]

H1(contents) == [found |-> TRUE, contents |-> contents]

Headings == {NoH1} \cup
            {H1(c) : c \in UNION {[1..len -> Children] : len \in 0..MaxChildren}}

GoodDoc == H1(<<CodeNode, TitleNode, LinkNode>>)

Docs == {NoH1, GoodDoc}

NoEnvelope == [shape |-> "none", keys |-> {}, items |-> <<>>,
               error |-> JNull, result |-> JNull]

ErrorValues == {JNull, JStr(""), JStr("duplicate")}

ResultValues == {JNull} \cup {JInt(id) : id \in NoteIds}

ObjectEnvelopes ==
    {[shape |-> "object", keys |-> ks, items |-> <<>>, error |-> e, result |-> r] :
        ks \in SUBSET {"error", "result", "extra"},
        e \in ErrorValues, r \in ResultValues}

\* an absent key has no value: keep one representative
Envelopes ==
    {env \in ObjectEnvelopes :
        /\ "error" \notin env.keys => env.error = JNull
        /\ "result" \notin env.keys => env.result = JNull}
    \cup {[shape |-> "array", keys |-> {}, items |-> it,
           error |-> JNull, result |-> JNull] :
              it \in {<<>>, <<"error", "result">>, <<"x", "y">>}}
    \cup {[shape |-> "invalid", keys |-> {}, items |-> <<>>,
           error |-> JNull, result |-> JNull]}

----------------------------------------------------------------------------
(* Program functions *)

\* response.raise_for_status(): raises for 4xx and 5xx
raise_for_status(status) == status >= 400 /\ status < 600

Returned(value) == [raised |-> FALSE, msg |-> JNull, value |-> value]

Raised(msg) == [raised |-> TRUE, msg |-> msg, value |-> JNull]

NoOutcome == [raised |-> FALSE, msg |-> JStr("none"), value |-> JNull]

\* len(response_table)
PyLen(env) == IF env.shape = "object" THEN Cardinality(env.keys) ELSE Len(env.items)

\* key in response_table
PyIn(key, env) ==
    IF env.shape = "object" THEN key \in env.keys
    ELSE \E k \in 1..Len(env.items) : env.items[k] = key

\* variant: the error field is tested for truth (`if response_table["error"]:`)
invoke_anki_connect_truthy(env) ==
    IF env.shape = "invalid" THEN Raised(JStr("JSONDecodeError"))
    ELSE IF PyLen(env) # 2
        THEN Raised(JStr("response has an unexpected number of fields"))
    ELSE IF ~PyIn("error", env)
        THEN Raised(JStr("response is missing required error field"))
    ELSE IF ~PyIn("result", env)
        THEN Raised(JStr("response is missing required result field"))
    ELSE IF env.shape = "array" THEN Raised(JStr("TypeError"))
    ELSE IF env.error \notin {JNull, JStr("")} THEN Raised(env.error)
    ELSE Returned(env.result)

\* invoke_anki_connect after the POST: decode and validate the envelope
invoke_anki_connect(env) ==
    IF env.shape = "invalid" THEN Raised(JStr("JSONDecodeError"))
    ELSE IF PyLen(env) # 2
        THEN Raised(JStr("response has an unexpected number of fields"))
    ELSE IF ~PyIn("error", env)
        THEN Raised(JStr("response is missing required error field"))
    ELSE IF ~PyIn("result", env)
        THEN Raised(JStr("response is missing required result field"))
    ELSE IF env.shape = "array" THEN Raised(JStr("TypeError"))
    ELSE IF env.error # JNull THEN Raised(env.error)
    ELSE Returned(env.result)

\* variant: only the first child is removed (h1.contents[1:])
get_synopsis_keeps_last(heading) ==
    PySliceFrom(PyJoin(<<>>, [k \in 1..Len(PySliceFrom(heading.contents, 1)) |->
                                 PyStrNode(PySliceFrom(heading.contents, 1)[k])]), 3)

\* "".join(map(str, h1.contents[1:-1]))[3:]
get_synopsis(heading) ==
    PySliceFrom(PyJoin(<<>>, [k \in 1..Len(PySlice(heading.contents, 1, -1)) |->
                                 PyStrNode(PySlice(heading.contents, 1, -1)[k])]), 3)

\* "nid:" + ",".join(map(str, note_ids))
gui_browse_query(ids) ==
    <<"n", "i", "d", ":">> \o
    PyJoin(<<",">>, [k \in 1..Len(ids) |-> PyStrInt(ids[k].n)])

\* variant: the new id is put in front (note_ids.insert(0, note_id))
main_collect_prepend(ids, note_id) ==
    IF note_id = JNull THEN ids ELSE <<note_id>> \o ids

\* main's loop body after create_synopsis_note returned note_id
main_collect(ids, note_id) ==
    IF note_id = JNull THEN ids ELSE Append(ids, note_id)

\* variant: the configuration is cached after the first read
get_config_cached(reads) == IF reads = 0 THEN 1 ELSE reads

\* get_config: one read of config.json per call
get_config(reads) == reads + 1

\* variant: the file is closed by hand at the end of the block, so an
\* exception leaves it behind
with_exit_leaks_on_raise(files, exc) == IF exc THEN files ELSE files - 1

\* leaving the `with tempfile.TemporaryFile()` block closes (removes) the file,
\* whether the block returns or raises
with_exit(files, exc) == files - 1

Entry(kind, module, heading, text, res, value) ==
    [kind |-> kind, module |-> module, h1 |-> heading, text |-> text,
     res |-> res, value |-> value]

\* variant: the loop stops one module early
LoopNextOffByOne ==
    /\ i' = i + 1
    /\ pc' = IF i + 1 < Len(modules) THEN "fetch" ELSE "browse"

\* the for loop moves on to the next module, or to gui_browse_notes
LoopNext ==
    /\ i' = i + 1
    /\ pc' = IF i < Len(modules) THEN "fetch" ELSE "browse"

\* variant: main catches a failing addNote and goes on with the next module
UncaughtSkipsModule(where, msg) ==
    /\ raised' = [where |-> where, msg |-> msg]
    /\ IF where = "addNote"
       THEN /\ i' = i + 1
            /\ pc' = IF i < Len(modules) THEN "fetch" ELSE "browse"
            /\ ret' = ret
       ELSE /\ pc' = "crashed"
            /\ ret' = 1
            /\ i' = i

\* an exception nobody catches ends the process with a traceback
Uncaught(where, msg) ==
    /\ raised' = [where |-> where, msg |-> msg]
    /\ pc' = "crashed"
    /\ ret' = 1
    /\ i' = i

NotRaised == [where |-> "none", msg |-> JNull]

----------------------------------------------------------------------------
(* One run of main *)

Init ==
    /\ modules \in ModuleLists
    /\ i = 1
    /\ pc = "fetch"
    /\ note_ids = <<>>
    /\ log = <<>>
    /\ console = <<>>
    /\ tempFiles = 0
    /\ configReads = 0
    /\ created = <<>>
    /\ document = NoH1
    /\ synopsis = <<>>
    /\ response = NoEnvelope
    /\ outcome = NoOutcome
    /\ raised = NotRaised
    /\ ret = -1
    /\ h1 = NoH1
    /\ syn_result = [state |-> "input", value |-> <<>>]

\* requests.get raises (connection error): nothing catches it
FetchTransportFails ==
    /\ pc = "fetch"
    /\ log' = Append(log, Entry("GET", modules[i], NoH1, <<>>, "transport_error", JNull))
    /\ Uncaught("get", JStr("ConnectionError"))
    /\ UNCHANGED <<modules, note_ids, console, tempFiles, configReads, created,
                   document, synopsis, response, outcome, h1, syn_result>>

\* raise_for_status raises: caught, reported, None returned, main continues
FetchStatusFails ==
    /\ pc = "fetch"
    /\ \E status \in HttpStatuses :
          /\ raise_for_status(status)
          /\ log' = Append(log, Entry("GET", modules[i], NoH1, <<>>, "http_error", JNull))
          /\ console' = Append(console, [line |-> "Failed to get docs", module |-> modules[i]])
          /\ note_ids' = main_collect(note_ids, JNull)
          /\ LoopNext
    /\ UNCHANGED <<modules, tempFiles, configReads, created, document, synopsis,
                   response, outcome, raised, ret, h1, syn_result>>

\* the GET succeeds: the body is written to a fresh temporary file
FetchOk ==
    /\ pc = "fetch"
    /\ \E status \in HttpStatuses, doc \in Docs :
          /\ ~raise_for_status(status)
          /\ log' = Append(log, Entry("GET", modules[i], doc, <<>>, "ok", JNull))
          /\ document' = doc
    /\ tempFiles' = tempFiles + 1
    /\ pc' = "extract"
    /\ UNCHANGED <<modules, i, note_ids, console, configReads, created, synopsis,
                   response, outcome, raised, ret, h1, syn_result>>

\* get_synopsis raises: soup.find("h1") is not a Tag
ExtractFails ==
    /\ pc = "extract"
    /\ ~document.found
    /\ tempFiles' = with_exit(tempFiles, TRUE)
    /\ Uncaught("extract", JStr("h1 should be an instance of bs4.Tag"))
    /\ UNCHANGED <<modules, note_ids, log, console, configReads, created, document,
                   synopsis, response, outcome, h1, syn_result>>

ExtractOk ==
    /\ pc = "extract"
    /\ document.found
    /\ synopsis' = get_synopsis(document)
    /\ pc' = "submit"
    /\ UNCHANGED <<modules, i, note_ids, log, console, tempFiles, configReads, created,
                   document, response, outcome, raised, ret, h1, syn_result>>

\* the POST of addNote fails at transport level: requests.post raises
SubmitTransportFails ==
    /\ pc = "submit"
    /\ configReads' = get_config(configReads)
    /\ log' = Append(log, Entry("addNote", modules[i], NoH1, synopsis,
                                "transport_error", JNull))
    /\ response' = NoEnvelope
    /\ outcome' = Raised(JStr("ConnectionError"))
    /\ tempFiles' = with_exit(tempFiles, TRUE)
    /\ Uncaught("addNote", JStr("ConnectionError"))
    /\ UNCHANGED <<modules, note_ids, console, created, document, synopsis,
                   h1, syn_result>>

\* a bad HTTP status of the POST is reported and the body is decoded anyway
InvokeConsole(status) ==
    IF raise_for_status(status)
    THEN Append(console, [line |-> "Error getting response from AnkiConnect",
                          module |-> ""])
    ELSE console

\* addNote is answered and invoke_anki_connect raises: the exception leaves
\* the with block, create_synopsis_note and main
SubmitRaises ==
    /\ pc = "submit"
    /\ configReads' = get_config(configReads)
    /\ \E status \in PostStatuses, env \in Envelopes :
          /\ invoke_anki_connect(env).raised
          /\ response' = env
          /\ outcome' = invoke_anki_connect(env)
          /\ console' = InvokeConsole(status)
          /\ log' = Append(log, Entry("addNote", modules[i], NoH1, synopsis,
                                      "raise", JNull))
          /\ Uncaught("addNote", invoke_anki_connect(env).msg)
    /\ tempFiles' = with_exit(tempFiles, TRUE)
    /\ UNCHANGED <<modules, note_ids, created, document, synopsis, h1, syn_result>>

\* addNote is answered and invoke_anki_connect returns the result; main
\* collects it unless it is None
SubmitReturns ==
    /\ pc = "submit"
    /\ configReads' = get_config(configReads)
    /\ \E status \in PostStatuses, env \in Envelopes :
          LET out == invoke_anki_connect(env)
              lines == InvokeConsole(status)
          IN  /\ ~out.raised
              /\ response' = env
              /\ outcome' = out
              /\ log' = Append(log, Entry("addNote", modules[i], NoH1, synopsis,
                                  IF out.value = JNull THEN "null" ELSE "id",
                                  out.value))
              /\ created' = IF out.value = JNull THEN created
                            ELSE Append(created, out.value)
              /\ console' = IF out.value = JNull THEN lines
                            ELSE Append(lines, [line |-> "Added synopsis note",
                                                module |-> modules[i]])
              /\ note_ids' = main_collect(note_ids, out.value)
    /\ tempFiles' = with_exit(tempFiles, FALSE)
    /\ LoopNext
    /\ UNCHANGED <<modules, document, synopsis, raised, ret, h1, syn_result>>

BrowseTransportFails ==
    /\ pc = "browse"
    /\ configReads' = get_config(configReads)
    /\ log' = Append(log, Entry("guiBrowse", "", NoH1, gui_browse_query(note_ids),
                                "transport_error", JNull))
    /\ response' = NoEnvelope
    /\ outcome' = Raised(JStr("ConnectionError"))
    /\ Uncaught("guiBrowse", JStr("ConnectionError"))
    /\ UNCHANGED <<modules, note_ids, console, tempFiles, created, document,
                   synopsis, h1, syn_result>>

BrowseRaises ==
    /\ pc = "browse"
    /\ configReads' = get_config(configReads)
    /\ \E status \in PostStatuses, env \in Envelopes :
          /\ invoke_anki_connect(env).raised
          /\ response' = env
          /\ outcome' = invoke_anki_connect(env)
          /\ console' = InvokeConsole(status)
          /\ log' = Append(log, Entry("guiBrowse", "", NoH1,
                                      gui_browse_query(note_ids), "raise", JNull))
          /\ Uncaught("guiBrowse", invoke_anki_connect(env).msg)
    /\ UNCHANGED <<modules, note_ids, tempFiles, created, document, synopsis,
                   h1, syn_result>>

\* gui_browse_notes returns; main returns 0
BrowseReturns ==
    /\ pc = "browse"
    /\ configReads' = get_config(configReads)
    /\ \E status \in PostStatuses, env \in Envelopes :
          /\ ~invoke_anki_connect(env).raised
          /\ response' = env
          /\ outcome' = invoke_anki_connect(env)
          /\ console' = InvokeConsole(status)
          /\ log' = Append(log, Entry("guiBrowse", "", NoH1,
                                      gui_browse_query(note_ids), "ok",
                                      invoke_anki_connect(env).value))
    /\ pc' = "done"
    /\ ret' = 0
    /\ UNCHANGED <<modules, i, note_ids, tempFiles, created, document, synopsis,
                   raised, h1, syn_result>>

Next ==
    \/ FetchTransportFails
    \/ FetchStatusFails
    \/ FetchOk
    \/ ExtractFails
    \/ ExtractOk
    \/ SubmitTransportFails
    \/ SubmitRaises
    \/ SubmitReturns
    \/ BrowseTransportFails
    \/ BrowseRaises
    \/ BrowseReturns

Spec == Init /\ [][Next]_vars

----------------------------------------------------------------------------
(* get_synopsis applied to one parsed heading *)

SynInit ==
    /\ h1 \in Headings
    /\ syn_result = [state |-> "input", value |-> <<>>]
    /\ modules = <<"ast">>
    /\ i = 1
    /\ pc = "extract"
    /\ note_ids = <<>>
    /\ log = <<>>
    /\ console = <<>>
    /\ tempFiles = 1
    /\ configReads = 0
    /\ created = <<>>
    /\ document = NoH1
    /\ synopsis = <<>>
    /\ response = NoEnvelope
    /\ outcome = NoOutcome
    /\ raised = NotRaised
    /\ ret = -1

SynRaises ==
    /\ syn_result.state = "input"
    /\ ~h1.found
    /\ syn_result' = [state |-> "raised", value |-> <<>>]
    /\ UNCHANGED <<h1, mainVars>>

SynReturns ==
    /\ syn_result.state = "input"
    /\ h1.found
    /\ syn_result' = [state |-> "returned", value |-> get_synopsis(h1)]
    /\ UNCHANGED <<h1, mainVars>>

SynNext == SynRaises \/ SynReturns

SynSpec == SynInit /\ [][SynNext]_vars

----------------------------------------------------------------------------
(* Reading the history of a run *)

OfKind(kind) == SelectSeq(log, LAMBDA e : e.kind = kind)

FetchedOk == SelectSeq(log, LAMBDA e : e.kind = "GET" /\ e.res = "ok")

FetchFailed == SelectSeq(log, LAMBDA e : e.kind = "GET" /\ e.res # "ok")

AddReturned == SelectSeq(log, LAMBDA e : e.kind = "addNote" /\ e.res \in {"id", "null"})

AddWithId == SelectSeq(log, LAMBDA e : e.kind = "addNote" /\ e.res = "id")

FailureLines == SelectSeq(console, LAMBDA l : l.line = "Failed to get docs")

ModulesOf(entries) == [k \in 1..Len(entries) |-> entries[k].module]

IdsOf(values) == [k \in 1..Len(values) |-> values[k].n]

Terminal == pc \in {"done", "crashed"}

NidPrefix == <<"n", "i", "d", ":">>

DigitVal(ch) == CHOOSE d \in 0..9 : DigitChar(d) = ch

RECURSIVE ParseNat(_)
ParseNat(digits) ==
    IF digits = <<>> THEN 0
    ELSE 10 * ParseNat(SubSeq(digits, 1, Len(digits) - 1)) + DigitVal(digits[Len(digits)])

RECURSIVE SplitComma(_, _)
\* the comma-separated parts of text; cur is the part being read
SplitComma(text, cur) ==
    IF text = <<>> THEN <<cur>>
    ELSE IF Head(text) = "," THEN <<cur>> \o SplitComma(Tail(text), <<>>)
    ELSE SplitComma(Tail(text), Append(cur, Head(text)))

\* the ids a browse query names, read back from its text
QueryIds(query) ==
    LET rest == SubSeq(query, 5, Len(query))
        parts == SplitComma(rest, <<>>)
    IN  IF rest = <<>> THEN <<>>
        ELSE [k \in 1..Len(parts) |-> ParseNat(parts[k])]

IsNidQuery(query) == Len(query) >= 4 /\ SubSeq(query, 1, 4) = NidPrefix

WellShaped(env) == env.shape = "object" /\ env.keys = {"error", "result"}

----------------------------------------------------------------------------
(* Claims *)

\* C1: a failed documentation fetch of either kind (non-success HTTP status or
\* transport failure) is reported and only skips that module: the batch is not
\* aborted by it, no addNote follows it, and main goes on to the next module
\* or to guiBrowse.
C1_FetchFailureSkips ==
    /\ raised.where # "get"
    /\ Len(FailureLines) = Len(FetchFailed)
    /\ \A k \in 1..Len(log) :
          (log[k].kind = "GET" /\ log[k].res # "ok") =>
             /\ k < Len(log) => log[k + 1].kind \in {"GET", "guiBrowse"}
             /\ k = Len(log) => pc \in {"fetch", "browse"}

\* C2 precondition: every fetch succeeded or returned a non-success status,
\* and every addNote returned an id.
C2_Pre ==
    /\ \A k \in 1..Len(log) :
          /\ log[k].kind = "GET" => log[k].res \in {"ok", "http_error"}
          /\ log[k].kind = "addNote" => log[k].res = "id"

C2_Post ==
    /\ ModulesOf(OfKind("addNote")) = ModulesOf(FetchedOk)
    /\ Len(OfKind("GET")) = Len(modules)
    /\ Len(OfKind("guiBrowse")) = 1
    /\ log[Len(log)].kind = "guiBrowse"
    /\ IsNidQuery(log[Len(log)].text)
    /\ QueryIds(log[Len(log)].text) = IdsOf([k \in 1..Len(AddWithId) |-> AddWithId[k].value])

C3_InvokeContract ==
    response.shape # "none" =>
       /\ ~outcome.raised <=> (WellShaped(response) /\ response.error = JNull)
       /\ ~outcome.raised => outcome.value = response.result
       /\ outcome.raised => outcome.value = JNull
       /\ (WellShaped(response) /\ response.error # JNull) =>
             (outcome.raised /\ outcome.msg = response.error)

\* C3 as stated: whenever the envelope's error is non-null, whatever its other
\* keys, the raised error carries the remote error text.
C3_ErrorTextAlways ==
    (response.shape = "object" /\ "error" \in response.keys /\ response.error # JNull) =>
       (outcome.raised /\ outcome.msg = response.error)

C3_Witness ==
    /\ WellShaped(response)
    /\ response.error = JStr("duplicate")
    /\ outcome.raised
    /\ outcome.msg = JStr("duplicate")

\* C4: a failing addNote is fatal to the run: it is the last request ever
\* sent (no later fetch, submission or guiBrowse), the run ends by the
\* uncaught error and not by returning 0, and the notes created before it
\* are still there.
C4_AddNoteFailureFatal ==
    /\ \A k \in 1..Len(log) :
          (log[k].kind = "addNote" /\ log[k].res \in {"raise", "transport_error"}) =>
             /\ k = Len(log)
             /\ pc = "crashed"
             /\ ret # 0
             /\ raised.where = "addNote"
             /\ OfKind("guiBrowse") = <<>>
    /\ \A k \in 1..Len(log) : log[k].kind \in {"GET", "addNote", "guiBrowse"}
    /\ created = [k \in 1..Len(AddWithId) |-> AddWithId[k].value]

C4_Witness ==
    /\ pc = "crashed"
    /\ raised = [where |-> "addNote", msg |-> JStr("duplicate")]
    /\ Len(created) = 1
    /\ i = 2
    /\ Len(modules) >= 2

\* C5: guiBrowse is never followed by another request; a run that reaches its
\* end has fetched every module, then issued exactly one guiBrowse whose query
\* names the whole accumulated id list ("nid:" alone when the list is empty),
\* and returned 0.
C5_BrowseOnceAtEnd ==
    /\ \A k \in 1..Len(log) : log[k].kind = "guiBrowse" => (k = Len(log) /\ Terminal)
    /\ pc = "done" =>
          /\ ret = 0
          /\ Len(OfKind("GET")) = Len(modules)
          /\ Len(OfKind("guiBrowse")) = 1
          /\ IsNidQuery(log[Len(log)].text)
          /\ QueryIds(log[Len(log)].text) = IdsOf(note_ids)
          /\ note_ids = <<>> => log[Len(log)].text = NidPrefix

C5_Witness ==
    /\ pc = "done"
    /\ ret = 0
    /\ note_ids = <<>>
    /\ Len(modules) >= 2
    /\ Len(FetchFailed) = Len(modules)
    /\ log[Len(log)].text = NidPrefix

\* C6: a fetched document without an h1 tag only skips its module: the run is
\* not ended by the extraction error, and the next module or guiBrowse follows.
C6_ExtractFailureSkips ==
    /\ raised.where # "extract"
    /\ \A k \in 1..Len(log) :
          (log[k].kind = "GET" /\ log[k].res = "ok" /\ ~log[k].h1.found) =>
             /\ k < Len(log) => log[k + 1].kind \in {"GET", "guiBrowse"}
             /\ k = Len(log) => pc \in {"extract", "fetch", "browse"}

\* C7 as stated: a run that reaches its end has read the configuration
\* exactly twice.
C7_TwoReads == pc = "done" => configReads = 2

\* C7 amended: the configuration is read once per addNote call and once for
\* browsing, so a run that reaches its end has read it (number of addNote
\* calls) + 1 times.
C7_ReadPerCall ==
    /\ configReads = Len(OfKind("addNote")) + Len(OfKind("guiBrowse"))
    /\ pc = "done" => configReads = Len(OfKind("addNote")) + 1

C7_Witness ==
    /\ pc = "done"
    /\ Len(modules) = 2
    /\ Len(OfKind("addNote")) = 2
    /\ configReads = 3

\* C8: at most one temporary file exists at any moment; one exists only inside
\* the with block; none exists when a fetch starts or when the run has ended,
\* normally or by an uncaught error.
C8_TempFileScoped ==
    /\ tempFiles \in {0, 1}
    /\ tempFiles = 1 <=> pc \in {"extract", "submit"}

C8_Witness ==
    /\ pc = "crashed"
    /\ raised.where = "addNote"
    /\ log[Len(log)].kind = "addNote"
    /\ tempFiles = 0

\* C10: the id accumulator holds one entry for every addNote call that
\* returned without raising, in call order, a null result included.
C10_EveryReturnCollected ==
    /\ Len(note_ids) = Len(AddReturned)
    /\ note_ids = [k \in 1..Len(AddReturned) |-> AddReturned[k].value]

----------------------------------------------------------------------------
(* Claims about get_synopsis *)

RECURSIVE Markup(_, _, _)
\* the string forms of children lo..hi (1-based), in order, concatenated
Markup(children, lo, hi) ==
    IF lo > hi THEN <<>>
    ELSE PyStrNode(children[lo]) \o Markup(children, lo + 1, hi)

\* C9: for a heading with children c[0..n-1], get_synopsis returns the string
\* forms of c[1..n-2] concatenated, without its first three characters; with
\* fewer than three children, or a middle part shorter than three characters,
\* it returns the empty string; it raises only when there is no h1 tag.
C9_SynopsisIsMiddle ==
    /\ syn_result.state # "input" => (syn_result.state = "returned" <=> h1.found)
    /\ syn_result.state = "returned" =>
          LET n == Len(h1.contents)
              middle == Markup(h1.contents, 2, n - 1)
          IN  /\ Len(syn_result.value) = Max(Len(middle) - 3, 0)
              /\ \A j \in 1..Len(syn_result.value) : syn_result.value[j] = middle[j + 3]
              /\ (n < 3 \/ Len(middle) < 3) => syn_result.value = <<>>

C9_Witness ==
    /\ syn_result.state = "returned"
    /\ h1.contents = <<CodeNode, TitleNode, BoldNode, LinkNode>>
    /\ syn_result.value = <<"A", "b", "<", "b", ">", "y", "<", "/", "b", ">">>

====
